---- MODULE Spec2Model ----
(***************************************************************************)
(* Model of the install / uninstall state manager of lunactl:              *)
(*   Installer   (src/src/install.rs)   - download, promote, back up       *)
(*   Uninstaller (src/src/uninstall.rs) - remove app/, restore app.asar    *)
(*   LunaInstall (src/src/base.rs)      - path validation, temp_path, Drop *)
(*   main, run   (src/src/main.rs)      - construction, exit code          *)
(* The persisted state is the install directory: app/, app.asar and        *)
(* original.asar.  Each run is modelled step by step in program order:     *)
(* construction, the operation, teardown, exit; a step that returns an     *)
(* error ends the operation.                                               *)
(***************************************************************************)
EXTENDS Integers, Sequences, FiniteSets, TLC

\* number of CLI invocations (install or uninstall calls) in one behaviour
MaxCalls == 2

\* number of most recent completed calls kept in hist
Window == 2

\* ---------------------------------------------------------------------------
\* File system values
\* ---------------------------------------------------------------------------
\* app/ : absent, an empty directory, an older bundle, or the injector
\* directory that this tool moved in from the extracted archive.
AppStates == {"absent", "empty", "old", "injector"}

\* app.asar / original.asar : absent, or a file with content "A" or "B".
AsarStates == {"absent", "A", "B"}

\* state of the directory download_and_extract unpacks into
ScratchStates == {"none", "partial", "bundle", "nobundle", "moved"}

\* results a call can return (anyhow errors, named after their message)
Results == {"none", "Ok", "ErrFetch", "ErrIo", "ErrMoveInjector",
            "ErrNotInstalled", "ErrReinstall", "ErrAlreadyInstalled",
            "ErrPathMissing", "ErrNotDir", "ErrTempDir", "ErrDiscovery"}

\* what the --install-path argument names
PathKinds == {"dir", "missing", "file"}

\* cli.command: Some(Install), Some(Uninstall), or None ("default")
Commands == {"install", "uninstall", "default"}

\* what else lives in std::env::temp_dir(): content staged by another live
\* instance of the tool, and files of other programs
OtherContent == {"other_instance", "foreign_file"}

VARIABLES
    app,                 \* install_path/app
    appAsar,             \* install_path/app.asar
    origAsar,            \* install_path/original.asar
    posixRename,         \* build target: rename may replace an empty directory
    scratch,             \* temp_dir/neptune-master-temp_<random>
    pc,                  \* position inside the running call
    op,                  \* "install" | "uninstall" | "none"
    force,               \* Installer.force / Uninstaller.force
    fetch,               \* outcome of download_and_extract in this call
    faulted,             \* a file system call failed although its paths were fine
    backupTried,         \* rename(app.asar, original.asar) was attempted
    restoreSaw,          \* what original_asar_path.exists() returned at the restore step
    finished_installing, \* Installer.finished_installing
    res,                 \* result of the running call
    pre,                 \* layout when the running call started
    hist,                \* the last Window completed calls, oldest first
    ncalls,              \* number of runs started so far
    cmd,                 \* cli.command of the running process
    install_path,        \* kind of path handed to LunaInstall::new, "none" for None
    temp_path,           \* LunaInstall.temp_path: "none" | "exists"
    temp_dir_exists,     \* std::env::temp_dir() (Installer.temp_dir) exists
    temp_others          \* content of std::env::temp_dir() the instance did not stage

vars == <<app, appAsar, origAsar, posixRename, scratch, pc, op, force, fetch,
          faulted, backupTried, restoreSaw, finished_installing, res, pre, hist,
          ncalls, cmd, install_path, temp_path, temp_dir_exists, temp_others>>

cliVars == <<cmd, install_path>>

tempVars == <<ncalls, temp_path, temp_dir_exists, temp_others>>

fsVars == <<app, appAsar, origAsar>>

Layout == [app |-> app, appAsar |-> appAsar, origAsar |-> origAsar]

\* ---------------------------------------------------------------------------
\* std::fs primitives as used by the code
\* ---------------------------------------------------------------------------
\* a rename that leaves the source in place (a copy)
fs_copy(src) == [from |-> src, to |-> src]

\* std::fs::rename(from, to) on an existing file: the file moves, replacing `to`
fs_rename(src) == [from |-> "absent", to |-> src]

\* rename(injector_path, app_path) can succeed only when the extracted archive
\* has neptune-master/injector and app_path is free (or an empty directory on
\* targets whose rename replaces an empty directory)
CanMoveInjector(s, a, posix) ==
    /\ s = "bundle"
    /\ (a = "absent" \/ (a = "empty" /\ posix))

\* ---------------------------------------------------------------------------
\* Conditions of the code
\* ---------------------------------------------------------------------------
\* force never removes the old app directory
ForceRemovesNever(f) == FALSE

\* install.rs: if self.force { remove_dir_all(&app_path)? }
ForceRemoves(f) == f

\* the backup is attempted whether or not original.asar exists
BackupNeededAlways(o) == TRUE

\* the backup is attempted when original.asar exists
BackupNeededInverted(o) == o # "absent"

\* install.rs: if !original_asar_path.exists()
BackupNeeded(o) == o = "absent"

\* both pieces must be missing
NotInstalledBoth(a, o) == a = "absent" /\ o = "absent"

\* uninstall.rs: if !app_path.exists() || !original_asar_path.exists()
NotInstalled(a, o) == a = "absent" \/ o = "absent"

\* force does not override the check
MustBailIgnoringForce(f, a, o) == NotInstalled(a, o)

\* uninstall.rs: the not-installed check bails unless force is set
MustBail(f, a, o) == NotInstalled(a, o) /\ ~f

\* app/ is never removed
RemoveNeededNever(a) == FALSE

\* uninstall.rs: if app_path.exists() { remove_dir_all(&app_path)? }
RemoveNeeded(a) == a # "absent"

\* the restore is attempted without looking at original.asar
RestorePossibleAlways(o) == TRUE

\* uninstall.rs: if original_asar_path.exists() { rename } else { bail }
RestorePossible(o) == o # "absent"

\* the order of the specification: back up first, then fetch, then promote
InstallStepAfterBackupFirst(p) ==
    CASE p = "start"    -> "backup"
      [] p = "backup"   -> "download"
      [] p = "download" -> "force"
      [] p = "force"    -> "move"
      [] OTHER          -> "drop"

\* the old app directory is removed before the fetch
InstallStepAfterForceFirst(p) ==
    CASE p = "start"    -> "force"
      [] p = "force"    -> "download"
      [] p = "download" -> "move"
      [] p = "move"     -> "backup"
      [] OTHER          -> "drop"

\* install.rs: the statements of init() and install() in program order:
\* download_and_extract, force removal, promote, back up, then Drop
InstallStepAfter(p) ==
    CASE p = "start"    -> "download"
      [] p = "download" -> "force"
      [] p = "force"    -> "move"
      [] p = "move"     -> "backup"
      [] OTHER          -> "drop"

\* the is_dir() check is missing
PathErrorNoDirCheck(k) == IF k = "missing" THEN "ErrPathMissing" ELSE "none"

\* base.rs LunaInstall::new: !exists() -> bail, !is_dir() -> bail
PathError(k) ==
    IF k = "missing" THEN "ErrPathMissing"
    ELSE IF k # "dir" THEN "ErrNotDir"
    ELSE "none"

\* cleanup only after a failed install
CleanupRunsOnError(fin) == ~fin

\* install.rs Drop: the warning depends on finished_installing, cleanup() does not
CleanupRuns(fin) == TRUE

\* the temp_path is removed only after a successful operation
LunaDropRemovesOnSuccess == res = "Ok"

\* base.rs Drop for LunaInstall: remove_dir_all(&self.temp_path), unconditionally
LunaDropRemoves == TRUE

\* a failed removal turns the result into an error
AfterTeardownRaising(r, removed) == IF removed THEN r ELSE "ErrIo"

\* base.rs / install.rs Drop: a failed removal is logged (error!, warn!);
\* drop() returns nothing, so the result of the operation stands
AfterTeardown(r, removed) == r

\* app/ alone counts as installed
installedAppOnly(a, o) == a # "absent"

\* base.rs LunaInstall::installed: orig_asar_path.exists() && app_path.exists()
installed(a, o) == o # "absent" /\ a # "absent"

\* main.rs run: the operation a command runs; with no subcommand, uninstall
\* if installed() and install otherwise
Dispatch(c, a, o) ==
    IF c # "default" THEN c
    ELSE IF installed(a, o) THEN "uninstall" ELSE "install"

\* main.rs run: opts.force of a subcommand, the literal false with no subcommand
ForceOptions(c) == IF c = "default" THEN {FALSE} ELSE BOOLEAN

\* main.rs run: opts.install_path of a subcommand, None with no subcommand
PathArgs(c) == IF c = "default" THEN {"none"} ELSE PathKinds

\* the not-installed error is treated as a success
ExitCodeLenient(r) == IF r \in {"Ok", "ErrNotInstalled"} THEN 0 ELSE 1

\* main.rs main: if let Err(e) = run() { error!; exit(1) }, else fall off main
ExitCode(r) == IF r = "Ok" THEN 0 ELSE 1

\* ---------------------------------------------------------------------------
\* Initial state: an existing install directory in any layout, no call running
\* ---------------------------------------------------------------------------
Init ==
    /\ app \in {"absent", "empty", "old"}
    /\ appAsar \in AsarStates
    /\ origAsar \in AsarStates
    /\ posixRename \in BOOLEAN
    /\ scratch = "none"
    /\ pc = "idle"
    /\ op = "none"
    /\ force = FALSE
    /\ fetch = "none"
    /\ faulted = FALSE
    /\ backupTried = FALSE
    /\ restoreSaw = "unreached"
    /\ finished_installing = FALSE
    /\ res = "none"
    /\ pre = Layout
    /\ hist = <<>>
    /\ ncalls = 0
    /\ cmd = "none"
    /\ install_path = "dir"
    /\ temp_path = "none"
    /\ temp_dir_exists = TRUE
    /\ temp_others = OtherContent

\* hist with the record r of a call that has just returned
Push(h, r) == IF Len(h) < Window THEN Append(h, r) ELSE Append(Tail(h), r)

\* the record of the call that is returning with result r in layout l
CallRecord(r, l, flt, bt, rs) ==
    [op |-> op, cmd |-> cmd, force |-> force, fetch |-> fetch, faulted |-> flt,
     backupTried |-> bt, restoreSaw |-> rs, res |-> r, pre |-> pre, post |-> l,
     path |-> install_path, instance |-> TRUE, cleanup |-> "none",
     scratchLeft |-> "none", lunaDrop |-> "pending", tempLeft |-> "exists",
     ret |-> "pending", exit |-> -1]

\* the record of a run in which LunaInstall::new returned the error e
ConstructFailure(c, k, e) ==
    [op |-> "construct", cmd |-> c, force |-> FALSE, fetch |-> "none", faulted |-> FALSE,
     backupTried |-> FALSE, restoreSaw |-> "unreached", res |-> e,
     pre |-> Layout, post |-> Layout,
     path |-> k, instance |-> FALSE, cleanup |-> "none",
     scratchLeft |-> "none", lunaDrop |-> "none", tempLeft |-> temp_path,
     ret |-> e, exit |-> -1]

\* the last record of hist with the fields of u replaced
AmendLast(u) ==
    [hist EXCEPT ![Len(hist)] =
        [f \in DOMAIN @ |-> IF f \in DOMAIN u THEN u[f] ELSE @[f]]]

\* ---------------------------------------------------------------------------
\* Process start: main.rs run() constructs the installation state
\* ---------------------------------------------------------------------------
\* Cli::parse, then LunaInstall::new: validate the path given (or, with no
\* subcommand, discover it with get_install_path), then allocate a fresh
\* TempDir under std::env::temp_dir()
LunaInstallNew ==
    /\ pc = "idle"
    /\ ncalls < MaxCalls
    /\ ncalls' = ncalls + 1
    /\ \E c \in Commands, found \in BOOLEAN, alloc \in BOOLEAN :
       \E k \in PathArgs(c) :
         /\ cmd' = c
         /\ install_path' = k
         /\ IF k = "none" /\ ~found
              THEN /\ hist' = Push(hist, ConstructFailure(c, k, "ErrDiscovery"))
                   /\ pc' = "exit"
                   /\ temp_path' = temp_path
              ELSE IF k # "none" /\ PathError(k) # "none"
                     THEN /\ hist' = Push(hist, ConstructFailure(c, k, PathError(k)))
                          /\ pc' = "exit"
                          /\ temp_path' = temp_path
                     ELSE IF ~(alloc /\ temp_dir_exists)
                            THEN /\ hist' = Push(hist,
                                                ConstructFailure(c, k, "ErrTempDir"))
                                 /\ pc' = "exit"
                                 /\ temp_path' = temp_path
                            ELSE /\ temp_path' = "exists"
                                 /\ pc' = "constructed"
                                 /\ hist' = hist
    /\ UNCHANGED <<fsVars, posixRename, scratch, op, force, fetch, faulted,
                   backupTried, restoreSaw, finished_installing, res, pre,
                   temp_dir_exists, temp_others>>

\* ---------------------------------------------------------------------------
\* Installer
\* ---------------------------------------------------------------------------
\* Installer::new followed by the entry of Installer::init
InstallerNew ==
    /\ pc = "constructed"
    /\ Dispatch(cmd, app, origAsar) = "install"
    /\ \E f \in ForceOptions(cmd) : force' = f
    /\ op' = "install"
    /\ pc' = InstallStepAfter("start")
    /\ pre' = Layout
    /\ res' = "none"
    /\ fetch' = "none"
    /\ faulted' = FALSE
    /\ backupTried' = FALSE
    /\ restoreSaw' = "unreached"
    /\ finished_installing' = FALSE
    /\ scratch' = "none"
    /\ UNCHANGED <<fsVars, posixRename, hist, cliVars, tempVars>>

\* Installer::download_and_extract: the whole fetch happens before install()
DownloadAndExtract ==
    /\ pc = "download"
    /\ \E outcome \in {"fail", "bundle", "nobundle"} :
         /\ fetch' = outcome
         /\ IF outcome = "fail"
              THEN /\ res' = "ErrFetch"
                   /\ pc' = "drop"
                   /\ scratch' \in {"none", "partial"}
              ELSE /\ res' = res
                   /\ pc' = InstallStepAfter("download")
                   /\ scratch' = outcome
    /\ UNCHANGED <<fsVars, posixRename, op, force, faulted, backupTried,
                   restoreSaw, finished_installing, pre, hist, cliVars,
                   tempVars>>

\* Installer::install, the force branch: remove_dir_all(&app_path)?
InstallForce ==
    /\ pc = "force"
    /\ IF ForceRemoves(force)
         THEN \E ok \in BOOLEAN :
                IF app # "absent" /\ ok
                  THEN /\ app' = "absent"
                       /\ pc' = InstallStepAfter("force")
                       /\ UNCHANGED <<res, faulted>>
                  ELSE /\ res' = "ErrIo"
                       /\ pc' = "drop"
                       /\ faulted' = (faulted \/ app # "absent")
                       /\ app' = app
         ELSE /\ pc' = InstallStepAfter("force")
              /\ UNCHANGED <<app, res, faulted>>
    /\ UNCHANGED <<appAsar, origAsar, posixRename, scratch, op, force, fetch,
                   backupTried, restoreSaw, finished_installing, pre, hist,
                   cliVars, tempVars>>

\* Installer::install: rename(injector_path, app_path)
InstallMove ==
    /\ pc = "move"
    /\ \E ok \in BOOLEAN :
         IF CanMoveInjector(scratch, app, posixRename) /\ ok
           THEN /\ app' = "injector"
                /\ scratch' = "moved"
                /\ pc' = InstallStepAfter("move")
                /\ UNCHANGED <<res, faulted>>
           ELSE /\ res' = "ErrMoveInjector"
                /\ pc' = "drop"
                /\ faulted' = (faulted \/ CanMoveInjector(scratch, app, posixRename))
                /\ UNCHANGED <<app, scratch>>
    /\ UNCHANGED <<appAsar, origAsar, posixRename, op, force, fetch,
                   backupTried, restoreSaw, finished_installing, pre, hist,
                   cliVars, tempVars>>

\* Installer::install: back up app.asar as original.asar unless it exists
InstallBackup ==
    /\ pc = "backup"
    /\ IF BackupNeeded(origAsar)
         THEN /\ backupTried' = TRUE
              /\ \E ok \in BOOLEAN :
                   IF appAsar # "absent" /\ ok
                     THEN /\ appAsar' = fs_rename(appAsar).from
                          /\ origAsar' = fs_rename(appAsar).to
                          /\ res' = "Ok"
                          /\ finished_installing' = TRUE
                          /\ faulted' = faulted
                          /\ pc' = InstallStepAfter("backup")
                     ELSE /\ res' = "ErrIo"
                          /\ faulted' = (faulted \/ appAsar # "absent")
                          /\ pc' = "drop"
                          /\ UNCHANGED <<appAsar, origAsar, finished_installing>>
         ELSE /\ res' = "Ok"
              /\ finished_installing' = TRUE
              /\ pc' = InstallStepAfter("backup")
              /\ UNCHANGED <<appAsar, origAsar, backupTried, faulted>>
    /\ UNCHANGED <<app, posixRename, scratch, op, force, fetch, restoreSaw,
                   pre, hist, cliVars, tempVars>>

\* impl Drop for Installer: cleanup() removes self.temp_dir, which is
\* std::env::temp_dir() itself, with everything in it; a failure is only
\* logged.  The call's result reaches the caller here.
InstallerDrop ==
    /\ pc = "drop"
    /\ IF CleanupRuns(finished_installing) /\ temp_dir_exists
         THEN \E removed \in BOOLEAN :
                /\ scratch' = IF removed THEN "none" ELSE scratch
                /\ temp_dir_exists' = ~removed
                /\ temp_others' = IF removed THEN {} ELSE temp_others
                /\ temp_path' = IF removed THEN "none" ELSE temp_path
                /\ hist' = Push(hist,
                     [CallRecord(res, Layout, faulted, backupTried, restoreSaw)
                        EXCEPT !.cleanup = IF removed THEN "removed" ELSE "failed",
                               !.scratchLeft = IF removed THEN "none" ELSE scratch])
         ELSE /\ UNCHANGED <<scratch, temp_path, temp_dir_exists, temp_others>>
              /\ hist' = Push(hist,
                     [CallRecord(res, Layout, faulted, backupTried, restoreSaw)
                        EXCEPT !.cleanup = IF CleanupRuns(finished_installing)
                                             THEN "nodir" ELSE "skipped",
                               !.scratchLeft = scratch])
    /\ pc' = "luna_drop"
    /\ UNCHANGED <<fsVars, posixRename, op, force, fetch, faulted, backupTried,
                   restoreSaw, finished_installing, res, pre, cliVars,
                   ncalls>>

\* ---------------------------------------------------------------------------
\* Uninstaller
\* ---------------------------------------------------------------------------
\* Uninstaller::new followed by the entry of Uninstaller::init
UninstallerNew ==
    /\ pc = "constructed"
    /\ Dispatch(cmd, app, origAsar) = "uninstall"
    /\ \E f \in ForceOptions(cmd) : force' = f
    /\ op' = "uninstall"
    /\ pc' = "check"
    /\ pre' = Layout
    /\ res' = "none"
    /\ fetch' = "none"
    /\ faulted' = FALSE
    /\ backupTried' = FALSE
    /\ restoreSaw' = "unreached"
    /\ finished_installing' = FALSE
    /\ UNCHANGED <<fsVars, posixRename, scratch, hist, cliVars, tempVars>>

\* Uninstaller::uninstall: the "is Neptune installed" check
UninstallCheck ==
    /\ pc = "check"
    /\ IF MustBail(force, app, origAsar)
         THEN /\ res' = "ErrNotInstalled"
              /\ pc' = "luna_drop"
              /\ hist' = Push(hist, CallRecord("ErrNotInstalled", Layout,
                                                 faulted, backupTried, restoreSaw))
         ELSE /\ pc' = "remove"
              /\ UNCHANGED <<res, hist>>
    /\ UNCHANGED <<fsVars, posixRename, scratch, op, force, fetch, faulted,
                   backupTried, restoreSaw, finished_installing, pre,
                   cliVars, tempVars>>

\* Uninstaller::uninstall: remove the injector directory
UninstallRemove ==
    /\ pc = "remove"
    /\ IF RemoveNeeded(app)
         THEN \E ok \in BOOLEAN :
                IF ok
                  THEN /\ app' = "absent"
                       /\ pc' = "restore"
                       /\ UNCHANGED <<res, faulted, hist>>
                  ELSE /\ res' = "ErrIo"
                       /\ faulted' = TRUE
                       /\ pc' = "luna_drop"
                       /\ hist' = Push(hist, CallRecord("ErrIo", Layout, TRUE,
                                                          backupTried, restoreSaw))
                       /\ app' = app
         ELSE /\ pc' = "restore"
              /\ UNCHANGED <<app, res, faulted, hist>>
    /\ UNCHANGED <<appAsar, origAsar, posixRename, scratch, op, force, fetch,
                   backupTried, restoreSaw, finished_installing, pre,
                   cliVars, tempVars>>

\* Uninstaller::uninstall: restore original.asar as app.asar, or bail
UninstallRestore ==
    /\ pc = "restore"
    /\ restoreSaw' = IF origAsar # "absent" THEN "present" ELSE "absent"
    /\ IF RestorePossible(origAsar)
         THEN \E ok \in BOOLEAN :
                IF ok
                  THEN /\ origAsar' = fs_rename(origAsar).from
                       /\ appAsar' = fs_rename(origAsar).to
                       /\ res' = "Ok"
                       /\ faulted' = faulted
                  ELSE /\ res' = "ErrIo"
                       /\ faulted' = TRUE
                       /\ UNCHANGED <<appAsar, origAsar>>
         ELSE /\ res' = "ErrReinstall"
              /\ UNCHANGED <<appAsar, origAsar, faulted>>
    /\ UNCHANGED <<app, posixRename, scratch, op, force, fetch, backupTried,
                   finished_installing, pre, cliVars, tempVars>>
    /\ pc' = "luna_drop"
    /\ hist' = Push(hist, CallRecord(res', Layout', faulted', backupTried, restoreSaw'))

\* ---------------------------------------------------------------------------
\* Process end
\* ---------------------------------------------------------------------------
\* impl Drop for LunaInstall: best-effort removal of temp_path; run() then
\* hands the operation's result to main
LunaInstallDrop ==
    /\ pc = "luna_drop"
    /\ LET last == hist[Len(hist)]
       IN  IF LunaDropRemoves
             THEN \E ok \in BOOLEAN :
                    LET removed == ok /\ temp_path = "exists"
                    IN  /\ temp_path' = IF removed THEN "none" ELSE temp_path
                        /\ hist' = AmendLast(
                             [lunaDrop |-> IF removed THEN "removed" ELSE "failed",
                              tempLeft |-> IF removed THEN "none" ELSE temp_path,
                              ret |-> AfterTeardown(
                                        AfterTeardown(last.res, last.cleanup # "failed"),
                                        removed)])
             ELSE /\ temp_path' = temp_path
                  /\ hist' = AmendLast([lunaDrop |-> "skipped",
                                        tempLeft |-> temp_path,
                                        ret |-> last.res])
    /\ pc' = "exit"
    /\ UNCHANGED <<fsVars, posixRename, scratch, op, force, fetch, faulted,
                   backupTried, restoreSaw, finished_installing, res, pre,
                   cliVars, ncalls, temp_dir_exists, temp_others>>

\* main.rs main: map the result of run() to the exit code (the console is
\* taken to work: println! and anykey() do not panic)
MainExit ==
    /\ pc = "exit"
    /\ hist' = AmendLast([exit |-> ExitCode(hist[Len(hist)].ret)])
    /\ pc' = "idle"
    /\ UNCHANGED <<fsVars, posixRename, scratch, op, force, fetch, faulted,
                   backupTried, restoreSaw, finished_installing, res, pre,
                   cliVars, tempVars>>

\* between two runs the operating system may recreate its temp directory
EnvRecreatesTempDir ==
    /\ pc = "idle"
    /\ ~temp_dir_exists
    /\ temp_dir_exists' = TRUE
    /\ UNCHANGED <<fsVars, posixRename, scratch, pc, op, force, fetch, faulted,
                   backupTried, restoreSaw, finished_installing, res, pre, hist,
                   cliVars, ncalls, temp_path, temp_others>>

Next ==
    \/ LunaInstallNew
    \/ InstallerNew
    \/ DownloadAndExtract
    \/ InstallForce
    \/ InstallMove
    \/ InstallBackup
    \/ InstallerDrop
    \/ UninstallerNew
    \/ UninstallCheck
    \/ UninstallRemove
    \/ UninstallRestore
    \/ LunaInstallDrop
    \/ MainExit
    \/ EnvRecreatesTempDir

Spec == Init /\ [][Next]_vars

\* every variable stays within the values listed above
TypeOK ==
    /\ app \in AppStates
    /\ appAsar \in AsarStates
    /\ origAsar \in AsarStates
    /\ posixRename \in BOOLEAN
    /\ scratch \in ScratchStates
    /\ pc \in {"idle", "constructed", "download", "force", "move", "backup",
               "drop", "check", "remove", "restore", "luna_drop", "exit"}
    /\ cmd \in Commands \cup {"none"}
    /\ install_path \in PathKinds \cup {"none"}
    /\ temp_path \in {"none", "exists"}
    /\ temp_dir_exists \in BOOLEAN
    /\ temp_others \subseteq OtherContent
    /\ op \in {"none", "install", "uninstall"}
    /\ force \in BOOLEAN
    /\ fetch \in {"none", "fail", "bundle", "nobundle"}
    /\ faulted \in BOOLEAN
    /\ backupTried \in BOOLEAN
    /\ restoreSaw \in {"unreached", "present", "absent"}
    /\ finished_installing \in BOOLEAN
    /\ res \in Results
    /\ Len(hist) <= Window
    /\ ncalls \in 0..MaxCalls
    /\ \A i \in 1..Len(hist) : hist[i].res \in Results \ {"none"}
    /\ finished_installing => (op = "install" /\ res = "Ok")

\* ---------------------------------------------------------------------------
\* Layout classes of the specification, over a recorded layout l
\* ---------------------------------------------------------------------------
IsClean(l) == l.app = "absent" /\ l.origAsar = "absent" /\ l.appAsar # "absent"

IsInstalled(l) == l.app # "absent" /\ l.origAsar # "absent"

IsBackedUpOnly(l) ==
    l.app = "absent" /\ l.origAsar # "absent" /\ l.appAsar = "absent"

ExactlyOneArchive(l) == (l.appAsar = "absent") # (l.origAsar = "absent")

Installs == {i \in 1..Len(hist) : hist[i].op = "install"}

Uninstalls == {i \in 1..Len(hist) : hist[i].op = "uninstall"}

\* a call in which the fetch delivered neptune-master/injector and no file
\* system call failed for a reason outside the layout
GoodRun(c) == c.fetch = "bundle" /\ ~c.faulted

\* ---------------------------------------------------------------------------
\* Properties
\* ---------------------------------------------------------------------------

\* C1: a successful install on a Clean layout followed directly by a
\* successful uninstall leaves app/ absent, original.asar absent and app.asar
\* present with the content it had before the install.
C1_RoundTrip ==
    \A i \in 1..(Len(hist) - 1) :
        LET a == hist[i]
            r == hist[i + 1]
        IN  (/\ a.op = "install" /\ a.res = "Ok" /\ IsClean(a.pre)
             /\ r.op = "uninstall" /\ r.res = "Ok")
            => /\ r.post.app = "absent"
               /\ r.post.origAsar = "absent"
               /\ r.post.appAsar = a.pre.appAsar

C1_Witness ==
    \E i \in 1..(Len(hist) - 1) :
        /\ hist[i].op = "install" /\ hist[i].res = "Ok" /\ IsClean(hist[i].pre)
        /\ hist[i + 1].op = "uninstall" /\ hist[i + 1].res = "Ok"
        /\ hist[i + 1].post.appAsar = hist[i].pre.appAsar

\* C2: install with force=false on a layout with only app.asar, with a fetch
\* that delivers the bundle, succeeds and ends with app/ present,
\* original.asar present (the former app.asar) and app.asar absent.
C2_InstallOnClean ==
    \A i \in Installs :
        LET c == hist[i]
        IN  (~c.force /\ IsClean(c.pre) /\ GoodRun(c))
            => /\ c.res = "Ok"
               /\ c.post.app = "injector"
               /\ c.post.origAsar = c.pre.appAsar
               /\ c.post.appAsar = "absent"

C2_Witness ==
    \E i \in Installs :
        /\ ~hist[i].force /\ IsClean(hist[i].pre) /\ GoodRun(hist[i])
        /\ hist[i].res = "Ok"
        /\ hist[i].post.app = "injector"

\* C3: uninstall with force=false on an Installed layout succeeds and ends
\* with app/ absent, original.asar absent and app.asar present.
C3_UninstallOnInstalled ==
    \A i \in Uninstalls :
        LET c == hist[i]
        IN  (~c.force /\ IsInstalled(c.pre) /\ ~c.faulted)
            => /\ c.res = "Ok"
               /\ c.post.app = "absent"
               /\ c.post.origAsar = "absent"
               /\ c.post.appAsar = c.pre.origAsar

C3_Witness ==
    \E i \in Uninstalls :
        /\ ~hist[i].force /\ IsInstalled(hist[i].pre) /\ ~hist[i].faulted
        /\ hist[i].res = "Ok"
        /\ hist[i].post.app = "absent"

\* C4: for every starting layout and both values of force, uninstall returns
\* success only if original.asar existed when the restore step was reached;
\* when original.asar is absent the call returns an error and app.asar is
\* not created.
C4_MissingBackupNeverSuppressed ==
    \A i \in Uninstalls :
        LET c == hist[i]
        IN  /\ c.res = "Ok" => c.restoreSaw = "present"
            /\ c.pre.origAsar = "absent"
                 => /\ c.res # "Ok"
                    /\ c.post.appAsar = c.pre.appAsar
                    /\ c.post.origAsar = "absent"
            /\ c.restoreSaw = "absent" => c.res = "ErrReinstall"

C4_Witness ==
    \E i \in Uninstalls :
        /\ hist[i].force
        /\ hist[i].pre.origAsar = "absent"
        /\ hist[i].restoreSaw = "absent"
        /\ hist[i].res = "ErrReinstall"

\* C5: uninstall with force=true on a layout with app/ present and neither
\* archive present fails with the missing-backup error with app/ already
\* removed; the restore step is only ever reached with app/ absent.
C5_RemovalPrecedesBackupCheck ==
    /\ \A i \in Uninstalls :
         LET c == hist[i]
         IN  (/\ c.force /\ c.pre.app # "absent" /\ c.pre.origAsar = "absent"
              /\ c.pre.appAsar = "absent" /\ ~c.faulted)
             => /\ c.res = "ErrReinstall"
                /\ c.post.app = "absent"
    /\ (op = "uninstall" /\ pc = "restore") => app = "absent"

C5_Witness ==
    \E i \in Uninstalls :
        /\ hist[i].force /\ hist[i].pre.app # "absent"
        /\ hist[i].pre.origAsar = "absent" /\ hist[i].pre.appAsar = "absent"
        /\ hist[i].res = "ErrReinstall"
        /\ hist[i].post.app = "absent"

\* C6: uninstall with force=false on a layout where app/ or original.asar is
\* absent fails with the not-installed error and leaves the layout as it was.
C6_NotInstalledNoChange ==
    \A i \in Uninstalls :
        LET c == hist[i]
        IN  (~c.force /\ (c.pre.app = "absent" \/ c.pre.origAsar = "absent"))
            => /\ c.res = "ErrNotInstalled"
               /\ c.post = c.pre

C6_Witness ==
    \E i \in Uninstalls :
        /\ ~hist[i].force
        /\ hist[i].pre.app = "absent" /\ hist[i].pre.origAsar # "absent"
        /\ hist[i].res = "ErrNotInstalled"
        /\ hist[i].post = hist[i].pre

\* C7: install with force=false on an Installed layout fails, on every such
\* call, and changes nothing in the install directory.  (The code has no
\* error kind of its own for "already installed"; any error is accepted.)
C7_AlreadyInstalledRejected ==
    \A i \in Installs :
        LET c == hist[i]
        IN  (~c.force /\ IsInstalled(c.pre))
            => /\ c.res # "Ok"
               /\ c.post = c.pre

\* C8: install on a BackedUpOnly layout never attempts the rename
\* app.asar -> original.asar and leaves original.asar untouched; once the
\* injector is promoted the call succeeds and ends Installed, and with
\* force=false a delivered bundle is promoted.
C8_BackupIdempotent ==
    \A i \in Installs :
        LET c == hist[i]
        IN  IsBackedUpOnly(c.pre)
            => /\ ~c.backupTried
               /\ c.post.origAsar = c.pre.origAsar
               /\ c.post.appAsar = "absent"
               /\ c.post.app = "injector" => c.res = "Ok"
               /\ (~c.force /\ GoodRun(c))
                    => (c.res = "Ok" /\ c.post.app = "injector")

C8_Witness ==
    \E i \in Installs :
        /\ IsBackedUpOnly(hist[i].pre)
        /\ hist[i].res = "Ok"
        /\ hist[i].post.app = "injector"
        /\ ~hist[i].backupTried

\* C9 as stated: install with force=true on any layout where app/ exists
\* succeeds and ends with the new bundle as app/, original.asar present and
\* app.asar absent.
C9_ForceReplacesAnyLayout ==
    \A i \in Installs :
        LET c == hist[i]
        IN  (c.force /\ c.pre.app # "absent" /\ GoodRun(c))
            => /\ c.res = "Ok"
               /\ c.post.app = "injector"
               /\ c.post.origAsar # "absent"
               /\ c.post.appAsar = "absent"

\* C9 (amended): install with force=true on a layout where app/ exists and
\* exactly one of app.asar and original.asar exists removes the old app/ and
\* promotes the fetched bundle: the call succeeds and ends with app/ the new
\* bundle, original.asar present and app.asar absent.
C9_ForceReplaces ==
    \A i \in Installs :
        LET c == hist[i]
        IN  (/\ c.force /\ c.pre.app # "absent" /\ ExactlyOneArchive(c.pre)
             /\ GoodRun(c))
            => /\ c.res = "Ok"
               /\ c.post.app = "injector"
               /\ c.post.origAsar # "absent"
               /\ c.post.appAsar = "absent"

C9_Witness ==
    \E i \in Installs :
        /\ hist[i].force /\ hist[i].pre.app = "old"
        /\ ExactlyOneArchive(hist[i].pre)
        /\ hist[i].res = "Ok"
        /\ hist[i].post.app = "injector"

\* C10: when the first call starts with exactly one of app.asar and
\* original.asar, every completed call, whatever its kind, force value,
\* fetch outcome and result, ends with exactly one of them.
C10_ExactlyOneArchive ==
    (Len(hist) > 0 /\ ExactlyOneArchive(hist[1].pre))
        => \A i \in 1..Len(hist) : ExactlyOneArchive(hist[i].post)

C10_Witness ==
    /\ Len(hist) > 1
    /\ ExactlyOneArchive(hist[1].pre)
    /\ hist[1].post # hist[1].pre
    /\ hist[2].post.appAsar # hist[1].post.appAsar

\* ---------------------------------------------------------------------------
\* Properties of construction, teardown and exit
\* ---------------------------------------------------------------------------
\* runs whose process has exited
Finished == {i \in 1..Len(hist) : hist[i].exit # -1}

IsOrphaned(l) == l.app # "absent" /\ l.origAsar = "absent"

\* the install failed at the fetch or at the promotion rename (which is also
\* where an archive without neptune-master/injector is detected)
FailedBeforeBackup(c) == c.res \in {"ErrFetch", "ErrMoveInjector"}

\* C11: on every exit path of an operation the teardown attempts the removal
\* of the instance's scratch directory, whatever the result: after the drop
\* the LunaInstall temp_path is gone unless its removal failed, and after an
\* install the Installer's extraction directory is gone unless cleanup failed.
C11_ScratchRemovedOnEveryExit ==
    \A i \in Finished :
        LET c == hist[i]
        IN  c.instance
            => /\ c.lunaDrop \in {"removed", "failed"}
               /\ (c.tempLeft = "none" \/ c.lunaDrop = "failed")
               /\ c.op = "install"
                    => /\ c.cleanup \in {"removed", "failed", "nodir"}
                       /\ (c.scratchLeft = "none" \/ c.cleanup = "failed")

C11_Witness ==
    \E i \in Finished :
        /\ hist[i].op = "install"
        /\ hist[i].res = "ErrMoveInjector"
        /\ hist[i].cleanup = "failed"
        /\ hist[i].lunaDrop = "removed"
        /\ hist[i].tempLeft = "none"

\* C12: construction with an explicit path yields an instance only for an
\* existing directory; a missing path or a non-directory yields the matching
\* invalid-path error and no instance; an existing directory yields an
\* instance whenever the scratch TempDir can be allocated.
C12_ConstructIffDirectory ==
    \A i \in 1..Len(hist) :
        LET c == hist[i]
        IN  /\ (c.instance /\ c.path \in PathKinds) => c.path = "dir"
            /\ c.path = "missing"
                 => (c.op = "construct" /\ ~c.instance /\ c.res = "ErrPathMissing")
            /\ c.path = "file"
                 => (c.op = "construct" /\ ~c.instance /\ c.res = "ErrNotDir")
            /\ (c.path = "dir" /\ ~c.instance) => c.res = "ErrTempDir"

C12_Witness ==
    \E i, j \in 1..Len(hist) :
        /\ hist[i].path = "file" /\ hist[i].res = "ErrNotDir" /\ ~hist[i].instance
        /\ hist[j].path = "dir" /\ hist[j].instance

\* C13: the process exits with 1 whenever construction or the operation
\* returned an error and with 0 whenever the operation returned success.
C13_ExitCode ==
    \A i \in Finished :
        LET c == hist[i]
        IN  /\ c.res = "Ok" => c.exit = 0
            /\ c.res # "Ok" => c.exit = 1

C13_Witness ==
    \E i, j \in Finished :
        /\ hist[i].res = "ErrNotInstalled" /\ hist[i].exit = 1
        /\ hist[j].res = "Ok" /\ hist[j].exit = 0

C15_RetrySafe ==
    \A i \in 1..(Len(hist) - 1) :
        LET a == hist[i]
            b == hist[i + 1]
        IN  (/\ a.op = "install" /\ FailedBeforeBackup(a)
             /\ (IsClean(a.pre) \/ (IsInstalled(a.pre) /\ a.pre.appAsar = "absent"))
             /\ b.op = "install" /\ b.force = a.force /\ GoodRun(b))
            => /\ b.res = "Ok"
               /\ IsInstalled(b.post)
               /\ b.post.appAsar = "absent"

\* C16: on a layout without app/ the force flag makes no difference: a forced
\* install on a Clean layout succeeds and ends Installed, and two installs
\* from the same such layout with the same fetch outcome and no I/O failure
\* return the same result and layout whatever their force values.
C16_ForceIrrelevantWithoutApp ==
    /\ \A i \in Installs :
         LET c == hist[i]
         IN  (c.force /\ IsClean(c.pre) /\ GoodRun(c))
             => (c.res = "Ok" /\ IsInstalled(c.post))
    /\ \A i, j \in Installs :
         LET c == hist[i]
             d == hist[j]
         IN  (/\ c.pre = d.pre /\ c.pre.app = "absent"
              /\ c.fetch = d.fetch /\ ~c.faulted /\ ~d.faulted)
             => (c.res = d.res /\ c.post = d.post)

\* C17: when the fetched archive has no bundle at neptune-master/injector
\* the install fails and the install directory is as it was when the fetch
\* returned, for both force values.
C17_NoBundleNoChange ==
    \A i \in Installs :
        LET c == hist[i]
        IN  c.fetch = "nobundle" => (c.res # "Ok" /\ c.post = c.pre)

\* C18: no install or uninstall returns success with the layout Orphaned
\* (app/ present, original.asar absent).
C18_OrphanedIsAnError ==
    \A i \in Installs \cup Uninstalls :
        IsOrphaned(hist[i].post) => hist[i].res # "Ok"

C18_Witness ==
    \E i \in Installs :
        /\ hist[i].pre.app = "absent"
        /\ IsOrphaned(hist[i].post)
        /\ hist[i].res = "ErrIo"

\* C19: releasing an instance's scratch space never removes content of the
\* temp directory that the instance did not stage.
C19_ScratchExclusive == [][temp_others' = temp_others]_vars

\* C20: a failed removal during teardown is only logged: the result handed
\* to main is the result of the operation, and a successful operation still
\* exits with 0.
C20_TeardownFailureOnlyLogged ==
    \A i \in Finished :
        LET c == hist[i]
        IN  /\ c.ret = c.res
            /\ (c.res = "Ok" /\ (c.lunaDrop = "failed" \/ c.cleanup = "failed"))
                 => c.exit = 0

C20_Witness ==
    \E i \in Finished :
        /\ hist[i].res = "Ok"
        /\ hist[i].cleanup = "failed"
        /\ hist[i].lunaDrop = "failed"
        /\ hist[i].tempLeft = "exists"
        /\ hist[i].exit = 0

\* C21: a forced uninstall on a layout without app/ but with original.asar
\* passes the not-installed check, removes nothing, renames original.asar to
\* app.asar and returns success: app/ is still absent, original.asar is gone
\* and app.asar has the content original.asar had.
C21_ForcedRevertOnBackedUpOnly ==
    \A i \in Uninstalls :
        LET c == hist[i]
        IN  (/\ c.force
             /\ c.pre.app = "absent"
             /\ c.pre.origAsar # "absent"
             /\ ~c.faulted)
            => /\ c.res = "Ok"
               /\ c.restoreSaw = "present"
               /\ c.post.app = "absent"
               /\ c.post.origAsar = "absent"
               /\ c.post.appAsar = c.pre.origAsar
               /\ IsClean(c.post)

C21_Witness ==
    \E i \in Uninstalls :
        /\ hist[i].force
        /\ IsBackedUpOnly(hist[i].pre)
        /\ hist[i].res = "Ok"
        /\ IsClean(hist[i].post)
        /\ hist[i].post.appAsar = hist[i].pre.origAsar

\* C22: with no subcommand the tool runs a non-forced uninstall exactly when
\* app/ and original.asar both exist at the start and a non-forced install
\* otherwise; the uninstall it picks passes the not-installed check, so it
\* never returns the not-installed error.
C22_DefaultPicksByInstalled ==
    /\ \A i \in 1..Len(hist) :
         LET c == hist[i]
         IN  (c.cmd = "default" /\ c.instance)
             => /\ ~c.force
                /\ c.op \in {"install", "uninstall"}
                /\ (c.op = "uninstall") = IsInstalled(c.pre)
                /\ (c.op = "install") = ~IsInstalled(c.pre)
                /\ c.res # "ErrNotInstalled"
    /\ (cmd = "default" /\ pc = "check")
         => (~force /\ ~MustBail(force, app, origAsar))

C22_Witness ==
    \E i, j \in 1..Len(hist) :
        /\ hist[i].cmd = "default" /\ hist[i].op = "uninstall"
        /\ IsInstalled(hist[i].pre) /\ hist[i].res = "Ok"
        /\ hist[j].cmd = "default" /\ hist[j].op = "install"
        /\ ~IsInstalled(hist[j].pre) /\ ~hist[j].force

\* C23: the fetch runs before any change to the install directory: while
\* download_and_extract is running the layout is the one the call started
\* with, and an install whose download or extraction fails returns the fetch
\* error with app/, app.asar and original.asar exactly as before the call,
\* with and without force.
C23_FetchFailureChangesNothing ==
    /\ \A i \in Installs :
         LET c == hist[i]
         IN  c.fetch = "fail"
             => /\ c.res = "ErrFetch"
                /\ c.post = c.pre
                /\ ~c.backupTried
    /\ (op = "install" /\ pc = "download") => Layout = pre

C23_Witness ==
    \E i, j \in Installs :
        /\ hist[i].force /\ hist[i].fetch = "fail"
        /\ hist[i].pre.app # "absent"
        /\ hist[i].res = "ErrFetch" /\ hist[i].post = hist[i].pre
        /\ ~hist[j].force /\ hist[j].fetch = "fail"
        /\ hist[j].res = "ErrFetch" /\ hist[j].post = hist[j].pre

====
